---- MODULE Spec2Model ----
(***************************************************************************)
(* go-chi-restful: a chi router serving GET / and a /posts resource whose  *)
(* List and Create handlers forward to the substitutable upstream          *)
(* functions GetPosts and CreatePost.                                      *)
(***************************************************************************)
EXTENDS Integers, Sequences, FiniteSets, TLC

\* Number of requests the server handles at the same time.
MaxReq == 2
\* Longest list of posts an upstream fixture holds.
MaxPosts == 2

VARIABLES
    env,        \* the process environment: is PORT set, and to what
    mainPc,     \* position of main(): start, selected, logged, listening, fatal
    port,       \* main's local variable port
    logged,     \* the port named in the startup message
    addr,       \* the port of the address handed to http.ListenAndServe
    upstream,   \* what the package variables GetPosts / CreatePost are bound to
    reqs        \* the requests being handled, one record per slot

vars == <<env, mainPc, port, logged, addr, upstream, reqs>>

Slots == 1..MaxReq

----------------------------------------------------------------------------
\* Records

StatusOK == 200

ZeroPost == [Id |-> 0, UserId |-> 0, Title |-> "", Body |-> ""]

ZeroPostWithoutId == [UserId |-> 0, Title |-> "", Body |-> ""]

\* The record JsonPlaceholderMock.GetPosts returns.
MockedPost == [Id |-> 1, UserId |-> 2, Title |-> "Hello World", Body |-> "Foo Bar"]

\* The payload TestCreatePost sends.
TestPayload == [UserId |-> 1, Title |-> "Hello World", Body |-> "Foo Bar"]

OtherPost == [Id |-> 2, UserId |-> 1, Title |-> "", Body |-> "Hello World"]

OtherPayload == [UserId |-> 2, Title |-> "Foo Bar", Body |-> ""]

PostSet == {MockedPost, OtherPost}

RECURSIVE SeqsUpTo(_, _)
SeqsUpTo(S, n) ==
    IF n = 0 THEN {<<>>}
    ELSE LET shorter == SeqsUpTo(S, n - 1)
         IN  shorter \cup {Append(s, x) : s \in shorter, x \in S}

PostLists == SeqsUpTo(PostSet, MaxPosts)

----------------------------------------------------------------------------
\* encoding/json, as far as the program uses it.  A JSON text is a document
\* of kind object (a sequence of members), array (a sequence of objects) or
\* invalid (bytes that are no JSON).  A member is a key with a number or a
\* string value.

Num(k, n) == [key |-> k, type |-> "number", num |-> n, str |-> ""]

Str(k, s) == [key |-> k, type |-> "string", num |-> 0, str |-> s]

Object(ms) == [kind |-> "object", members |-> ms, items |-> <<>>]

Array(objs) == [kind |-> "array", members |-> <<>>, items |-> objs]

Invalid == [kind |-> "invalid", members |-> <<>>, items |-> <<>>]

NoBody == [kind |-> "none", members |-> <<>>, items |-> <<>>]

\* json.Marshal of a struct: one member per exported field, in field order,
\* keyed by the field's name.
PostMembers(p) ==
    <<Num("Id", p.Id), Num("UserId", p.UserId), Str("Title", p.Title), Str("Body", p.Body)>>

MarshalPost(p) == Object(PostMembers(p))

MarshalPostWithoutId(p) ==
    Object(<<Num("UserId", p.UserId), Str("Title", p.Title), Str("Body", p.Body)>>)

MarshalPosts(ps) == Array([i \in 1..Len(ps) |-> PostMembers(ps[i])])

\* json.Unmarshal matches a key to a struct field ignoring case.
FieldOf(key) ==
    CASE key \in {"Id", "id"} -> "Id"
      [] key \in {"UserId", "userId", "userid"} -> "UserId"
      [] key \in {"Title", "title"} -> "Title"
      [] key \in {"Body", "body"} -> "Body"
      [] OTHER -> "unknown"

FieldType(f) == IF f \in {"Id", "UserId"} THEN "number" ELSE "string"

\* Members are applied in order; a key that names no field is skipped; a value
\* of the wrong type is an error.
RECURSIVE DecodeMembers(_, _, _)
DecodeMembers(ms, fields, acc) ==
    IF ms = <<>> THEN acc
    ELSE LET m == Head(ms)
             f == FieldOf(m.key)
         IN  IF f \notin fields THEN DecodeMembers(Tail(ms), fields, acc)
             ELSE IF m.type # FieldType(f)
                  THEN DecodeMembers(Tail(ms), fields, [acc EXCEPT !.err = TRUE])
             ELSE DecodeMembers(Tail(ms), fields,
                      [acc EXCEPT !.val[f] = IF m.type = "number" THEN m.num ELSE m.str])

UnmarshalPost(doc) ==
    IF doc.kind # "object" THEN [err |-> TRUE, val |-> ZeroPost]
    ELSE DecodeMembers(doc.members, {"Id", "UserId", "Title", "Body"},
                       [err |-> FALSE, val |-> ZeroPost])

UnmarshalPostWithoutId(doc) ==
    IF doc.kind # "object" THEN [err |-> TRUE, val |-> ZeroPostWithoutId]
    ELSE DecodeMembers(doc.members, {"UserId", "Title", "Body"},
                       [err |-> FALSE, val |-> ZeroPostWithoutId])

UnmarshalPosts(doc) ==
    IF doc.kind # "array" THEN [err |-> TRUE, val |-> <<>>]
    ELSE LET each == [i \in 1..Len(doc.items) |->
                         DecodeMembers(doc.items[i], {"Id", "UserId", "Title", "Body"},
                                       [err |-> FALSE, val |-> ZeroPost])]
         IN  [err |-> \E i \in 1..Len(each) : each[i].err,
              val |-> [i \in 1..Len(each) |-> each[i].val]]

----------------------------------------------------------------------------
\* The upstream client functions.  A call returns (*http.Response, error);
\* panic marks a call that panics instead of returning.

UpResp(code, body) == [panic |-> FALSE, err |-> FALSE, StatusCode |-> code, Body |-> body]

UpError == [panic |-> FALSE, err |-> TRUE, StatusCode |-> 0, Body |-> NoBody]

UpPanic == [panic |-> TRUE, err |-> FALSE, StatusCode |-> 0, Body |-> NoBody]

\* The identifier JsonPlaceholderMock.CreatePost assigns.
MockId == 101

\* Mutant: the mock marshals an empty list.
MockGetPostsEmpty == UpResp(StatusOK, MarshalPosts(<<>>))

\* Mutant: the mock numbers its record by the responses already written.
MockGetPostsCounting ==
    UpResp(StatusOK,
           MarshalPosts(<<[MockedPost EXCEPT
                             !.Id = Cardinality({i \in Slots : reqs[i].pc = "done"})]>>))

MockGetPosts == UpResp(StatusOK, MarshalPosts(<<MockedPost>>))

\* Mutant: the mock leaves Id unset.
MockCreatePostNoId(body) ==
    LET reqPost == UnmarshalPostWithoutId(body)
    IN  IF reqPost.err THEN UpPanic
        ELSE UpResp(StatusOK,
                    MarshalPost([Id |-> 0, UserId |-> reqPost.val.UserId,
                                 Title |-> reqPost.val.Title, Body |-> reqPost.val.Body]))

\* Mutant: the mock swaps Title and Body.
MockCreatePostSwapped(body) ==
    LET reqPost == UnmarshalPostWithoutId(body)
    IN  IF reqPost.err THEN UpPanic
        ELSE UpResp(StatusOK,
                    MarshalPost([Id |-> MockId, UserId |-> reqPost.val.UserId,
                                 Title |-> reqPost.val.Body, Body |-> reqPost.val.Title]))

MockCreatePost(body) ==
    LET reqPost == UnmarshalPostWithoutId(body)
    IN  IF reqPost.err THEN UpPanic
        ELSE UpResp(StatusOK,
                    MarshalPost([Id |-> MockId, UserId |-> reqPost.val.UserId,
                                 Title |-> reqPost.val.Title, Body |-> reqPost.val.Body]))

\* The external posts API behind a fixture: it holds a list of posts, answers a
\* GET with the list and a POST with the payload and the next free identifier,
\* or fails with a transport error or with a body that is no JSON.
StubGetPosts(fx) ==
    CASE fx.kind = "stub" -> UpResp(StatusOK, MarshalPosts(fx.posts))
      [] fx.kind = "transportError" -> UpError
      [] OTHER -> UpResp(StatusOK, Invalid)

StubId(fx) == Len(fx.posts) + 1

StubCreatePost(fx, body) ==
    CASE fx.kind = "stub" ->
            LET p == UnmarshalPostWithoutId(body).val
            IN  UpResp(StatusOK, MarshalPost([Id |-> StubId(fx), UserId |-> p.UserId,
                                              Title |-> p.Title, Body |-> p.Body]))
      [] fx.kind = "transportError" -> UpError
      [] OTHER -> UpResp(StatusOK, Invalid)

\* The package variables GetPosts and CreatePost, called through their binding.
GetPosts == IF upstream.kind = "mock" THEN MockGetPosts ELSE StubGetPosts(upstream)

CreatePost(body) ==
    IF upstream.kind = "mock" THEN MockCreatePost(body) ELSE StubCreatePost(upstream, body)

\* What the package variables can be bound to when a handler runs: the mock
\* the tests assign (GetPosts = (&JsonPlaceholderMock{}).GetPosts), or the
\* external API in one of its behaviours.
Fixtures ==
    {[kind |-> "mock", posts |-> <<>>],
     [kind |-> "transportError", posts |-> <<>>],
     [kind |-> "invalidBody", posts |-> <<>>]}
    \cup {[kind |-> "stub", posts |-> ps] : ps \in PostLists}

----------------------------------------------------------------------------
\* main(): the port

Unset == [set |-> FALSE, value |-> ""]

Environments == {Unset} \cup {[set |-> TRUE, value |-> v] : v \in {"", "3000", "99999"}}

\* os.Getenv: the value, or "" when the variable is not set.
Getenv(e) == IF e.set THEN e.value ELSE ""

\* Mutant: the value of PORT is used whenever it is set, empty or not.
SelectPortNoEmptyCheck(e) == IF e.set THEN e.value ELSE "8080"

SelectPort(e) ==
    LET fromEnv == Getenv(e)
    IN  IF fromEnv # "" THEN fromEnv ELSE "8080"

\* Ports net.Listen accepts.
ValidPort(p) == p \in {"8080", "3000"}

----------------------------------------------------------------------------
\* Routing.  A path is its sequence of tokens: "/" and the names between.

RootPath == <<"/">>

PostsPath == <<"/", "posts">>

Paths == {RootPath, PostsPath, <<"/", "posts", "/">>, <<"/", "posts", "/", "1">>,
          <<"/", "other">>}

Methods == {"GET", "POST", "DELETE"}

\* PostsResource.Routes: the sub-router, GET / -> List and POST / -> Create.
Routes(method, routePath) ==
    IF routePath = RootPath
    THEN CASE method = "GET" -> "List"
           [] method = "POST" -> "Create"
           [] OTHER -> "MethodNotAllowed"
    ELSE "NotFound"

\* r.Mount(pattern, h) registers h at pattern, pattern/ and pattern/*, and h
\* routes on the rest of the path.
MountMatches(pattern, path) ==
    /\ Len(path) >= Len(pattern)
    /\ SubSeq(path, 1, Len(pattern)) = pattern
    /\ Len(path) > Len(pattern) => path[Len(pattern) + 1] = "/"

NextRoutePath(pattern, path) == RootPath \o SubSeq(path, Len(pattern) + 2, Len(path))

\* Mutant: the resource is mounted at /post.
DispatchTypo(method, path) ==
    IF path = RootPath
    THEN IF method = "GET" THEN "Root" ELSE "MethodNotAllowed"
    ELSE IF MountMatches(<<"/", "post">>, path)
         THEN Routes(method, NextRoutePath(<<"/", "post">>, path))
         ELSE "NotFound"

\* The router main() builds: r.Get("/") and r.Mount("/posts").
Dispatch(method, path) ==
    IF path = RootPath
    THEN IF method = "GET" THEN "Root" ELSE "MethodNotAllowed"
    ELSE IF MountMatches(PostsPath, path)
         THEN Routes(method, NextRoutePath(PostsPath, path))
         ELSE "NotFound"

----------------------------------------------------------------------------
\* Requests and handlers

Idle ==
    [pc |-> "idle", method |-> "", path |-> <<>>, body |-> NoBody,
     payload |-> ZeroPostWithoutId, wellFormed |-> FALSE, target |-> "none",
     calls |-> 0, returns |-> 0, status |-> 0, json |-> NoBody, text |-> "",
     panicked |-> FALSE]

\* What a client sends to Create: the payload it holds, the bytes it sends for
\* it, and whether those bytes decode into PostWithoutId.
CreateRequests ==
    {[payload |-> TestPayload, body |-> MarshalPostWithoutId(TestPayload), wellFormed |-> TRUE],
     [payload |-> OtherPayload,
      body |-> Object(<<Str("title", OtherPayload.Title), Str("body", OtherPayload.Body),
                        Num("userId", OtherPayload.UserId)>>),
      wellFormed |-> TRUE],
     [payload |-> ZeroPostWithoutId, body |-> Invalid, wellFormed |-> FALSE],
     [payload |-> ZeroPostWithoutId, body |-> Object(<<Str("UserId", "1")>>),
      wellFormed |-> FALSE]}

NoRequest == [payload |-> ZeroPostWithoutId, body |-> NoBody, wellFormed |-> FALSE]

Respond(r, code, doc, txt) ==
    [r EXCEPT !.pc = "done", !.status = code, !.json = doc, !.text = txt]

Panicked(r) == [r EXCEPT !.pc = "done", !.panicked = TRUE]

\* Mutant: the greeting loses its exclamation mark.
RootHandlerNoBang(r) == Respond(r, StatusOK, NoBody, "Hello World")

\* The root route: w.Write with no WriteHeader before it sends status 200.
RootHandler(r) == Respond(r, StatusOK, NoBody, "Hello World!")

NotFound(r) == Respond(r, 404, NoBody, "404 page not found")

MethodNotAllowed(r) == Respond(r, 405, NoBody, "")

\* List, up to its upstream call.
ListCall(r) == [r EXCEPT !.pc = "waiting", !.calls = @ + 1]

\* Mutant: List panics on an upstream failure instead of answering.
ListReturnPanics(r, up) ==
    LET q == [r EXCEPT !.returns = @ + 1]
    IN  IF up.panic \/ up.err \/ UnmarshalPosts(up.Body).err THEN Panicked(q)
        ELSE Respond(q, up.StatusCode, MarshalPosts(UnmarshalPosts(up.Body).val), "")

\* List, from the return of GetPosts.
ListReturn(r, up) ==
    LET q == [r EXCEPT !.returns = @ + 1]
    IN  IF up.panic THEN Panicked(q)
        ELSE IF up.err THEN Respond(q, 500, NoBody, "upstream error")
        ELSE LET posts == UnmarshalPosts(up.Body)
             IN  IF posts.err THEN Respond(q, 500, NoBody, "upstream error")
                 ELSE Respond(q, up.StatusCode, MarshalPosts(posts.val), "")

\* Mutant: Create forwards the body without decoding it.
CreateCallForwardsRaw(r) == [r EXCEPT !.pc = "waiting", !.calls = @ + 1]

\* Create, up to its upstream call: the body is decoded, then forwarded.
CreateCall(r) ==
    IF UnmarshalPostWithoutId(r.body).err
    THEN Respond(r, 400, NoBody, "bad request")
    ELSE [r EXCEPT !.pc = "waiting", !.calls = @ + 1]

\* Mutant: Create calls the upstream a second time when the first call fails.
CreateReturnRetries(r, up) ==
    LET q == [r EXCEPT !.returns = @ + 1]
    IN  IF up.err /\ r.calls < 2 THEN [q EXCEPT !.calls = @ + 1]
        ELSE IF up.panic THEN Panicked(q)
        ELSE IF up.err \/ UnmarshalPost(up.Body).err
             THEN Respond(q, 500, NoBody, "upstream error")
        ELSE Respond(q, StatusOK, MarshalPost(UnmarshalPost(up.Body).val), "")

\* Create, from the return of CreatePost.
CreateReturn(r, up) ==
    LET q == [r EXCEPT !.returns = @ + 1]
    IN  IF up.panic THEN Panicked(q)
        ELSE IF up.err THEN Respond(q, 500, NoBody, "upstream error")
        ELSE LET post == UnmarshalPost(up.Body)
             IN  IF post.err THEN Respond(q, 500, NoBody, "upstream error")
                 ELSE Respond(q, StatusOK, MarshalPost(post.val), "")

\* The router serves a request: the routes that make no upstream call answer at
\* once, List and Create run up to their upstream call.
Serve(r) ==
    CASE r.target = "Root" -> RootHandler(r)
      [] r.target = "List" -> ListCall(r)
      [] r.target = "Create" -> CreateCall(r)
      [] r.target = "MethodNotAllowed" -> MethodNotAllowed(r)
      [] OTHER -> NotFound(r)

----------------------------------------------------------------------------
\* The state machine

Init ==
    /\ env \in Environments
    /\ mainPc = "start"
    /\ port = ""
    /\ logged = ""
    /\ addr = ""
    /\ upstream \in Fixtures
    /\ reqs = [i \in Slots |-> Idle]

\* port := "8080"; if fromEnv := os.Getenv("PORT"); fromEnv != "" { port = fromEnv }
ChoosePort ==
    /\ mainPc = "start"
    /\ port' = SelectPort(env)
    /\ mainPc' = "selected"
    /\ UNCHANGED <<env, logged, addr, upstream, reqs>>

\* log.Printf("Starting up on http://localhost:%s", port)
LogStartup ==
    /\ mainPc = "selected"
    /\ logged' = port
    /\ mainPc' = "logged"
    /\ UNCHANGED <<env, port, addr, upstream, reqs>>

\* http.ListenAndServe(":"+port, r): the listener binds, or fails and
\* log.Fatal ends the process.
ListenAndServe ==
    /\ mainPc = "logged"
    /\ addr' = port
    /\ \E bound \in BOOLEAN :
          /\ bound => ValidPort(port)
          /\ mainPc' = IF bound THEN "listening" ELSE "fatal"
    /\ UNCHANGED <<env, port, logged, upstream, reqs>>

\* A request arrives and the router dispatches it.
Arrive(i) ==
    /\ mainPc = "listening"
    /\ reqs[i].pc = "idle"
    /\ \E m \in Methods, p \in Paths :
          LET t == Dispatch(m, p)
          IN  \E c \in (IF t = "Create" THEN CreateRequests ELSE {NoRequest}) :
                 reqs' = [reqs EXCEPT ![i] =
                             Serve([Idle EXCEPT !.method = m, !.path = p, !.target = t,
                                                !.body = c.body, !.payload = c.payload,
                                                !.wellFormed = c.wellFormed])]
    /\ UNCHANGED <<env, mainPc, port, logged, addr, upstream>>

\* The upstream call of a waiting handler returns and the handler responds.
UpstreamReturn(i) ==
    /\ reqs[i].pc = "waiting"
    /\ reqs' = [reqs EXCEPT ![i] =
                   IF reqs[i].target = "List" THEN ListReturn(reqs[i], GetPosts)
                   ELSE CreateReturn(reqs[i], CreatePost(reqs[i].body))]
    /\ UNCHANGED <<env, mainPc, port, logged, addr, upstream>>

\* The client has its response; the slot is free again.
Close(i) ==
    /\ reqs[i].pc = "done"
    /\ reqs' = [reqs EXCEPT ![i] = Idle]
    /\ UNCHANGED <<env, mainPc, port, logged, addr, upstream>>

Next ==
    \/ ChoosePort
    \/ LogStartup
    \/ ListenAndServe
    \/ \E i \in Slots : Arrive(i)
    \/ \E i \in Slots : UpstreamReturn(i)
    \/ \E i \in Slots : Close(i)

Spec == Init /\ [][Next]_vars

----------------------------------------------------------------------------
\* Properties

Done(i) == reqs[i].pc = "done"

Echoing == upstream.kind \in {"mock", "stub"}

Failing == upstream.kind \in {"transportError", "invalidBody"}

\* What the client reads from a response: json.NewDecoder(rr.Body).Decode.
ClientPosts(i) == UnmarshalPosts(reqs[i].json)

ClientPost(i) == UnmarshalPost(reqs[i].json)

\* C1: when GetPosts returns status 200 and a well-formed list of posts, List
\* answers 200 with a JSON array the client decodes to the same records in the
\* same order; the mock's one record gives an array of length 1.
C1_ListReturnsUpstreamPosts ==
    \A i \in Slots :
        (Done(i) /\ reqs[i].target = "List" /\ Echoing) =>
            /\ reqs[i].status = 200
            /\ ~reqs[i].panicked
            /\ ~ClientPosts(i).err
            /\ IF upstream.kind = "mock"
               THEN /\ Len(ClientPosts(i).val) = 1
                    /\ ClientPosts(i).val = <<MockedPost>>
               ELSE /\ Len(ClientPosts(i).val) = Len(upstream.posts)
                    /\ ClientPosts(i).val = upstream.posts

C1_Witness ==
    \E i \in Slots :
        /\ Done(i) /\ reqs[i].target = "List"
        /\ upstream.kind = "stub"
        /\ upstream.posts = <<OtherPost, MockedPost>>
        /\ ClientPosts(i).val = <<OtherPost, MockedPost>>

\* C2: for a request body that decodes into PostWithoutId, when CreatePost
\* returns status 200 and a post with an upstream-assigned Id, Create answers
\* 200 with a post carrying that Id: 101 with the mock.
C2_CreateReturnsAssignedId ==
    \A i \in Slots :
        (Done(i) /\ reqs[i].target = "Create" /\ reqs[i].wellFormed /\ Echoing) =>
            /\ reqs[i].status = 200
            /\ ~ClientPost(i).err
            /\ ClientPost(i).val.Id = IF upstream.kind = "mock" THEN 101 ELSE StubId(upstream)

C2_Witness ==
    \E i \in Slots :
        /\ Done(i) /\ reqs[i].target = "Create"
        /\ upstream.kind = "mock"
        /\ reqs[i].payload = TestPayload
        /\ reqs[i].status = 200
        /\ ClientPost(i).val.Id = 101

\* C3: the post Create answers with has the userId, title and body of the
\* payload the client sent, when the upstream echoes the payload.
C3_CreateRoundTrip ==
    \A i \in Slots :
        (Done(i) /\ reqs[i].target = "Create" /\ reqs[i].wellFormed /\ Echoing) =>
            /\ ~ClientPost(i).err
            /\ ClientPost(i).val.UserId = reqs[i].payload.UserId
            /\ ClientPost(i).val.Title = reqs[i].payload.Title
            /\ ClientPost(i).val.Body = reqs[i].payload.Body

C3_Witness ==
    \E i \in Slots :
        /\ Done(i) /\ reqs[i].target = "Create"
        /\ Echoing
        /\ reqs[i].payload = OtherPayload
        /\ ClientPost(i).val.Title = "Foo Bar"
        /\ ClientPost(i).val.UserId = 2

\* C4: an invocation of Create with a decodable body calls CreatePost exactly
\* once, whether the call succeeds or fails; no invocation calls it twice, and
\* no response is written while the call is outstanding.
C4_CreateCallsUpstreamOnce ==
    \A i \in Slots :
        reqs[i].target = "Create" =>
            /\ reqs[i].calls <= 1
            /\ reqs[i].returns <= reqs[i].calls
            /\ reqs[i].wellFormed => reqs[i].calls = 1
            /\ (Done(i) /\ reqs[i].wellFormed) => reqs[i].returns = 1
            /\ reqs[i].pc = "waiting" =>
                  (reqs[i].returns = 0 /\ reqs[i].status = 0 /\ reqs[i].json = NoBody)

C4_Witness ==
    \E i \in Slots :
        /\ Done(i) /\ reqs[i].target = "Create" /\ reqs[i].wellFormed
        /\ upstream.kind = "transportError"
        /\ reqs[i].calls = 1 /\ reqs[i].returns = 1

\* C5: when the upstream call of List or Create fails with a transport error
\* or returns a body that is no JSON, the handler answers with a 5xx status,
\* does not panic, and the server goes on listening.
C5_UpstreamFailureIs5xx ==
    \A i \in Slots :
        (Done(i) /\ reqs[i].target \in {"List", "Create"} /\ reqs[i].returns > 0 /\ Failing) =>
            /\ reqs[i].status \in 500..599
            /\ ~reqs[i].panicked
            /\ mainPc = "listening"

C5_Witness ==
    \E i, j \in Slots :
        /\ Done(i) /\ reqs[i].target = "List" /\ reqs[i].status = 500
        /\ Done(j) /\ reqs[j].target = "Create" /\ reqs[j].status = 500
        /\ upstream.kind = "invalidBody"

RoutingOnPosts(i) ==
    /\ (reqs[i].method = "GET" /\ reqs[i].path = PostsPath) => reqs[i].target = "List"
    /\ (reqs[i].method = "POST" /\ reqs[i].path = PostsPath) => reqs[i].target = "Create"
    /\ (reqs[i].method \notin {"GET", "POST"} /\ reqs[i].path = PostsPath) =>
          (reqs[i].target = "MethodNotAllowed" /\ reqs[i].status = 405 /\ reqs[i].calls = 0)
    /\ reqs[i].target = "List" => reqs[i].method = "GET"
    /\ reqs[i].target = "Create" => reqs[i].method = "POST"

\* C7 as stated: GET /posts reaches only List, POST /posts only Create, another
\* method on /posts gets 405, and every path that is neither / nor /posts gets
\* 404, the last two with no upstream call.
C7_RoutingAsStated ==
    \A i \in Slots :
        reqs[i].pc # "idle" =>
            /\ RoutingOnPosts(i)
            /\ reqs[i].path \notin {RootPath, PostsPath} =>
                  (reqs[i].target = "NotFound" /\ reqs[i].status = 404 /\ reqs[i].calls = 0)

\* C7 amended: as stated, but /posts/ is routed as /posts is, and the paths
\* that get 404 are those that are none of /, /posts and /posts/.
C7_RoutingAmended ==
    \A i \in Slots :
        reqs[i].pc # "idle" =>
            /\ RoutingOnPosts(i)
            /\ reqs[i].path = <<"/", "posts", "/">> =>
                  reqs[i].target = Dispatch(reqs[i].method, PostsPath)
            /\ reqs[i].path \notin {RootPath, PostsPath, <<"/", "posts", "/">>} =>
                  (reqs[i].target = "NotFound" /\ reqs[i].status = 404 /\ reqs[i].calls = 0)

C7_Witness ==
    \E i, j \in Slots :
        /\ Done(i) /\ reqs[i].method = "GET" /\ reqs[i].path = <<"/", "posts", "/">>
        /\ reqs[i].target = "List" /\ reqs[i].status = 200
        /\ Done(j) /\ reqs[j].path = <<"/", "posts", "/", "1">> /\ reqs[j].status = 404

\* C8: GET / answers 200 with the body "Hello World!" and makes no upstream
\* call, whatever else the server has served or is serving.
C8_RootSaysHello ==
    \A i \in Slots :
        (reqs[i].pc # "idle" /\ reqs[i].method = "GET" /\ reqs[i].path = RootPath) =>
            /\ Done(i)
            /\ reqs[i].status = 200
            /\ reqs[i].text = "Hello World!"
            /\ reqs[i].json = NoBody
            /\ reqs[i].calls = 0

C8_Witness ==
    \E i, j \in Slots :
        /\ Done(i) /\ reqs[i].method = "GET" /\ reqs[i].path = RootPath
        /\ reqs[i].text = "Hello World!"
        /\ Done(j) /\ reqs[j].target = "Create" /\ reqs[j].status = 500

\* C9: the port is the value of PORT when PORT is set and not empty, and 8080
\* otherwise; the startup message and the listener's address name that port.
C9_PortFromEnv ==
    /\ mainPc # "start" =>
          port = IF env.set /\ env.value # "" THEN env.value ELSE "8080"
    /\ mainPc \in {"logged", "listening", "fatal"} => logged = port
    /\ mainPc \in {"listening", "fatal"} => (addr = port /\ addr = logged)
    /\ mainPc \in {"start", "selected"} => logged = ""
    /\ mainPc \in {"start", "selected", "logged"} => addr = ""

C9_Witness ==
    /\ mainPc = "listening"
    /\ env = [set |-> TRUE, value |-> "3000"]
    /\ logged = "3000"
    /\ addr = "3000"

\* C10: with one upstream fixture, every GET /posts gets the same response,
\* whatever else was served before it or is served beside it.
C10_ListResponsesAgree ==
    \A i, j \in Slots :
        (Done(i) /\ Done(j) /\ reqs[i].target = "List" /\ reqs[j].target = "List") =>
            /\ reqs[i].status = reqs[j].status
            /\ reqs[i].json = reqs[j].json
            /\ reqs[i].text = reqs[j].text
            /\ reqs[i].panicked = reqs[j].panicked

C10_Witness ==
    \E i, j \in Slots :
        /\ i # j
        /\ Done(i) /\ reqs[i].target = "List" /\ reqs[i].status = 200
        /\ Done(j) /\ reqs[j].target = "List" /\ reqs[j].status = 200
        /\ upstream.kind = "mock"

====
